---- MODULE Spec2Model ----
(***************************************************************************)
(* Model of src/main.cpp: the process-wide default password length, the    *)
(* free function random_string, the four leaf generators, and the          *)
(* composite generator (length / add / generate).                          *)
(*                                                                         *)
(* Strings are sequences of one-character strings.  size_t is modelled as  *)
(* an unsigned integer of SizeBits bits (arithmetic modulo SizeMod).       *)
(* Objects of the bare base class password_generator and null shared_ptr   *)
(* arguments of add are not among the inputs explored.                     *)
(***************************************************************************)
EXTENDS Integers, Sequences, FiniteSets, TLC

\* ------------------------------------------------------------------ bounds
\* width of size_t in the model (64 in the build)
SizeBits == 5
\* number of heap objects (leaf or composite generators) that can be built
MaxObj == 3
\* largest number of entries of one composite's generators vector
MaxChildren == 2
\* number of distinct values std::random_device hands out
MaxSeed == 2
\* longest std::string the host can allocate (far below SIZE_MAX)
StringCapacity == 16
\* number of leaves built where only the default length and the leaves'
\* lengths are explored (SpecLengths)
MaxLeaves == 2

SizeMod == 2 ^ SizeBits
SIZE_MAX == SizeMod - 1
\* call depth the stack can hold; an acyclic object graph nests at most
\* MaxObj deep, so only unbounded recursion exhausts it
StackDepth == MaxObj + 1

\* ---------------------------------------------------------- program constants
\* static inline size_t len = 10;
InitialDefaultLength == 10
\* explicit symbol_generator(size_t l = 12)
symbol_default == 12
\* explicit lower_letter_generator(size_t l = 12)
lower_default == 12

\* implicit conversion of an int argument to size_t
ToSizeT(n) == n % SizeMod

Kinds == {"digit", "symbol", "upper", "lower"}

allowed_chars(kind) ==
  CASE kind = "digit"  -> <<"0","1","2","3","4","5","6","7","8","9">>
    [] kind = "symbol" -> <<"-","/",".",";","#","@","%",")","*">>
    [] kind = "upper"  -> <<"A","B","C","D","E","F","G","H","K","L","M","N","I","O","P","R","S","T">>
    [] kind = "lower"  -> <<"a","b","c","d","e","f","g","h","k","l","m","n","i","o","p","r","s","t">>

\* ------------------------------------------------------------------ inputs
NoArg == 0 - 1
\* arguments tried for password_default_length::set_length (ints, converted)
SetLengthArgs == {0 - 1, 0, 16}
\* explicit constructor arguments tried (NoArg: the default argument is used)
CtorArgs == {NoArg, 0, 3}
Seeds == 0 .. (MaxSeed - 1)
Overflow == 0 - 1

\* --------------------------------------------------------- random_string
\* std::random_device: the value the j-th rd() call of one run hands out,
\* e being the entropy the run starts from
rd(e, j) == (e + j) % MaxSeed

\* std::uniform_int_distribution<>(lo, hi) driven by std::mt19937 gen(seed):
\* the value of the i-th draw (i = 0, 1, ...), some value of lo .. hi
distribution(seed, i, lo, hi) == lo + ((seed + i * (seed + 1)) % (hi - lo + 1))

\* mutant of DistributionHi: the upper bound is chars.length()
DistributionHiOffByOne(chars) == Len(chars)

\* upper bound handed to the distribution: chars.length() - 1
DistributionHi(chars) == Len(chars) - 1

\* mutant of LoopBound: the loop runs while idx < len
LoopBoundOffByOne(len) == len % SizeMod

\* number of iterations of `for (idx = 0; idx < len - 1; idx++)`, len - 1
\* being computed in size_t
LoopBound(len) == (len - 1) % SizeMod

\* random_string(len, chars) with the random_device value `seed`.
\* outcome "undefined": chars is empty, so the distribution's range is
\* (0, -1) and chars[...] reads out of bounds.
\* outcome "bad_alloc": push_back cannot grow the string any further.
random_string(len, chars, seed) ==
  LET n == Len(chars)
      total == 1 + LoopBound(len)
  IN IF n = 0
       THEN [outcome |-> "undefined", str |-> <<>>]
     ELSE IF total > StringCapacity
       THEN [outcome |-> "bad_alloc", str |-> <<>>]
     ELSE [outcome |-> "returned",
           str |-> [i \in 1 .. total |->
                      LET d == distribution(seed, i - 1, 0, DistributionHi(chars))
                      IN IF d < n THEN chars[d + 1] ELSE "NUL"]]

\* what the build can do on the undefined call: crash, or return len
\* characters read from outside the alphabet
Garbage(len) == [i \in 1 .. (IF len = 0 THEN 1 ELSE len) |-> "?"]

UndefinedOutcomes(len) ==
  IF len <= StringCapacity
    THEN {[outcome |-> "ub_crash", str |-> <<>>],
          [outcome |-> "returned", str |-> Garbage(len)]}
    ELSE {[outcome |-> "ub_crash", str |-> <<>>]}

\* ------------------------------------------------------- leaf generators
\* mutant of DefaultArg: every kind defers to the process-wide default
DefaultArgAlwaysGlobal(kind, dl) == dl

\* the default argument of each leaf constructor, dl being
\* password_default_length::length() at the time of the call
DefaultArg(kind, dl) ==
  CASE kind = "digit"  -> dl
    [] kind = "symbol" -> symbol_default
    [] kind = "upper"  -> dl
    [] kind = "lower"  -> lower_default

\* ---------------------------------------------------- composite generator
RECURSIVE length(_, _, _)
RECURSIVE find_max(_, _, _, _, _)

\* p->length() on object o with `fuel` stack frames left; Overflow when the
\* recursion exhausts the stack
length(os, o, fuel) ==
  IF fuel = 0 THEN Overflow
  ELSE IF os[o].type = "leaf" THEN os[o].len
  ELSE find_max(os, os[o].generators, 1, 0, fuel - 1)

\* std::for_each(generators, find_max) from index i on, len so far
find_max(os, gens, i, len, fuel) ==
  IF i > Len(gens) THEN len
  ELSE LET l == length(os, gens[i], fuel)
       IN IF l = Overflow THEN Overflow
          ELSE find_max(os, gens, i + 1, IF l > len THEN l ELSE len, fuel)

\* mutant of push_back: the new child goes first
push_front(gens, p) == <<p>> \o gens

\* generators.push_back(ptr)
push_back(gens, p) == Append(gens, p)

\* mutant of TooShort: `<` in place of `<=`
TooShortStrict(pas_len, k) == pas_len < k

\* if (pas_len <= generated_strings.size()) throw
TooShort(pas_len, k) == pas_len <= k

RECURSIVE Concat(_)
\* concatenated_string.append(str) for every generated string
Concat(frags) ==
  IF frags = <<>> THEN <<>> ELSE Head(frags) \o Concat(Tail(frags))

\* mutant of FillerAlphabet: the filler is drawn from the four named alphabets
FillerFromNamedAlphabets(frags) ==
  allowed_chars("digit") \o allowed_chars("symbol")
    \o allowed_chars("upper") \o allowed_chars("lower")

\* the alphabet of the filler: the concatenation of the fragments
FillerAlphabet(frags) == Concat(frags)

\* mutant of SampleSource: the fragments are sampled in reverse order
SampleSourceReversed(frags, i) == frags[Len(frags) + 1 - i]

\* the string the i-th trailing character is drawn from
SampleSource(frags, i) == frags[i]

Gen(outcome, str, frags, used) ==
  [outcome |-> outcome, str |-> str, frags |-> frags, used |-> used]

RECURSIVE generate(_, _, _, _, _)
RECURSIVE generate_children(_, _, _, _, _, _, _)
RECURSIVE append_samples(_, _, _, _, _)

\* password.append(random_string(1, str)) for the strings from index i on
append_samples(password, frags, i, e, used) ==
  IF i > Len(frags) THEN Gen("returned", password, frags, used)
  ELSE LET r == random_string(1, SampleSource(frags, i), rd(e, used))
       IN IF r.outcome # "returned"
            THEN Gen(r.outcome, <<>>, frags, used + 1)
            ELSE append_samples(password \o r.str, frags, i + 1, e, used + 1)

\* generated_strings.push_back(generator->generate()) from index i on; the
\* first child that does not return ends the loop (its exception propagates)
generate_children(os, gens, i, frags, e, used, fuel) ==
  IF i > Len(gens) THEN Gen("returned", <<>>, frags, used)
  ELSE LET r == generate(os, gens[i], e, used, fuel)
       IN IF r.outcome # "returned"
            THEN Gen(r.outcome, <<>>, frags, r.used)
            ELSE generate_children(os, gens, i + 1, Append(frags, r.str),
                                   e, r.used, fuel)

\* o->generate() with `fuel` stack frames left; `used` counts the rd() calls
\* made so far in this run
generate(os, o, e, used, fuel) ==
  IF fuel = 0 THEN Gen("stack_overflow", <<>>, <<>>, used)
  ELSE IF os[o].type = "leaf"
    THEN LET r == random_string(os[o].len, allowed_chars(os[o].kind), rd(e, used))
         IN Gen(r.outcome, r.str, <<>>, used + 1)
  ELSE
    LET pas_len == length(os, o, fuel)
    IN IF pas_len = Overflow THEN Gen("stack_overflow", <<>>, <<>>, used)
       ELSE
         LET g == generate_children(os, os[o].generators, 1, <<>>, e, used, fuel - 1)
             k == Len(g.frags)
         IN IF g.outcome # "returned" THEN g
            ELSE IF TooShort(pas_len, k)
              THEN Gen("out_of_range", <<>>, g.frags, g.used)
            ELSE
              LET fill == random_string((pas_len - k) % SizeMod,
                                        FillerAlphabet(g.frags), rd(e, g.used))
              IN IF fill.outcome # "returned"
                   THEN Gen(fill.outcome, <<>>, g.frags, g.used + 1)
                   ELSE append_samples(fill.str, g.frags, 1, e, g.used + 1)

VARIABLES password_default_length, objs, last

vars == <<password_default_length, objs, last>>

NoObject == [type |-> "none", kind |-> "none", len |-> 0, generators |-> <<>>]

Result(op, obj, arg, chars, outcome, str, frags) ==
  [op |-> op, obj |-> obj, arg |-> arg, chars |-> chars,
   outcome |-> outcome, str |-> str, frags |-> frags]

Init ==
  /\ password_default_length = InitialDefaultLength
  /\ objs = [o \in 1 .. MaxObj |-> NoObject]
  /\ last = Result("none", 0, 0, <<>>, "none", <<>>, <<>>)

Constructed == {o \in 1 .. MaxObj : objs[o].type # "none"}

\* the heap slot the next `new` fills
NextSlot == Cardinality(Constructed) + 1

\* password_default_length::set_length(new_l), new_l converted to size_t
set_length(n) ==
  LET new_l == ToSizeT(n)
  IN IF new_l <= 0
       THEN /\ last' = Result("set_length", 0, n, <<>>, "out_of_range", <<>>, <<>>)
            /\ UNCHANGED <<password_default_length, objs>>
       ELSE /\ password_default_length' = new_l
            /\ last' = Result("set_length", 0, n, <<>>, "returned", <<>>, <<>>)
            /\ UNCHANGED objs

\* new digit_generator(...) etc.; arg = NoArg leaves the length to the
\* constructor's default argument
construct_leaf(kind, arg) ==
  /\ NextSlot <= MaxObj
  /\ objs' = [objs EXCEPT ![NextSlot] =
                [type |-> "leaf", kind |-> kind,
                 len |-> IF arg = NoArg
                           THEN DefaultArg(kind, password_default_length)
                           ELSE arg,
                 generators |-> <<>>]]
  /\ last' = Result("construct", NextSlot, arg, <<>>, "returned", <<>>, <<>>)
  /\ UNCHANGED password_default_length

\* new composite_password_generator
construct_composite ==
  /\ NextSlot <= MaxObj
  /\ objs' = [objs EXCEPT ![NextSlot] =
                [type |-> "composite", kind |-> "composite", len |-> 0,
                 generators |-> <<>>]]
  /\ last' = Result("construct", NextSlot, NoArg, <<>>, "returned", <<>>, <<>>)
  /\ UNCHANGED password_default_length

\* c->add(p): composite_password_generator::add, or the base class's add
\* for a leaf
add(c, p) ==
  /\ c \in Constructed
  /\ p \in Constructed
  /\ IF objs[c].type = "composite"
       THEN /\ Len(objs[c].generators) < MaxChildren
            /\ objs' = [objs EXCEPT ![c].generators = push_back(@, p)]
            /\ last' = Result("add", c, p, <<>>, "returned", <<>>, <<>>)
       ELSE /\ last' = Result("add", c, p, <<>>, "runtime_error", <<>>, <<>>)
            /\ UNCHANGED objs
  /\ UNCHANGED password_default_length

\* o->generate() called from outside, the random device starting at e
call_generate(o, e) ==
  /\ o \in Constructed
  /\ LET g == generate(objs, o, e, 0, StackDepth)
     IN \E r \in (IF g.outcome = "undefined"
                    THEN UndefinedOutcomes(length(objs, o, StackDepth))
                    ELSE {[outcome |-> g.outcome, str |-> g.str]}) :
          last' = Result("generate", o, e, <<>>, r.outcome, r.str, g.frags)
  /\ UNCHANGED <<password_default_length, objs>>

\* lengths and alphabets tried for a direct call of random_string
RandomStringLens == {0, 1, 2, 3, 4, StringCapacity, SIZE_MAX}
RandomStringAlphabets ==
  {<<>>, <<"x">>, <<"x", "y">>} \cup {allowed_chars(k) : k \in Kinds}

\* random_string(len, chars) called directly
call_random_string(len, chars, seed) ==
  /\ LET g == random_string(len, chars, seed)
     IN \E r \in (IF g.outcome = "undefined" THEN UndefinedOutcomes(len) ELSE {g}) :
          last' = Result("random_string", seed, len, chars, r.outcome, r.str, <<>>)
  /\ UNCHANGED <<password_default_length, objs>>

\* ----------------------------------------------------------- specifications
\* Composite behaviour: leaves of two kinds built with explicit lengths,
\* composites, add and generate.
CompositeKinds == {"digit", "symbol"}
CompositeCtorArgs == {0, 1, 3}

NextComposite ==
  \/ \E kind \in CompositeKinds, arg \in CompositeCtorArgs : construct_leaf(kind, arg)
  \/ construct_composite
  \/ \E c \in 1 .. MaxObj, p \in 1 .. MaxObj : add(c, p)
  \/ \E o \in 1 .. MaxObj, e \in Seeds : call_generate(o, e)

SpecComposite == Init /\ [][NextComposite]_vars

\* Default length and leaf lengths: set_length interleaved with the
\* construction of leaves of all four kinds, and generate on them.
NextLengths ==
  \/ \E n \in SetLengthArgs : set_length(n)
  \/ \E kind \in Kinds, arg \in CtorArgs :
       NextSlot <= MaxLeaves /\ construct_leaf(kind, arg)
  \/ \E o \in 1 .. MaxObj, e \in Seeds : call_generate(o, e)

SpecLengths == Init /\ [][NextLengths]_vars

\* random_string on its own, over the inputs above
NextRandomString ==
  \E len \in RandomStringLens, chars \in RandomStringAlphabets, seed \in Seeds :
    call_random_string(len, chars, seed)

SpecRandomString == Init /\ [][NextRandomString]_vars

\* ------------------------------------------------------------------ claims
Range(s) == {s[i] : i \in 1 .. Len(s)}

\* the last operation was generate() on a composite
CompositeGenerated ==
  /\ last.op = "generate"
  /\ objs[last.obj].type = "composite"

\* the last operation was generate() on a leaf
LeafGenerated ==
  /\ last.op = "generate"
  /\ objs[last.obj].type = "leaf"

\* composite length() of the object generate() was last called on
TotalLen == length(objs, last.obj, StackDepth)
NumChildren == Len(objs[last.obj].generators)

\* a length random_string can produce
ValidLength(len) == 1 <= len /\ len <= StringCapacity

RECURSIVE Generable(_, _, _)
\* o's own generate() returns a string: a leaf of valid length, or a
\* composite whose children are all Generable and whose length exceeds
\* their number (and which does not contain itself)
Generable(os, o, fuel) ==
  IF os[o].type = "leaf" THEN ValidLength(os[o].len)
  ELSE /\ fuel > 0
       /\ \A i \in 1 .. Len(os[o].generators) :
            Generable(os, os[o].generators[i], fuel - 1)
       /\ length(os, o, StackDepth) > Len(os[o].generators)

RECURSIVE NoZeroLeaf(_, _, _)
\* no leaf reachable from o has length 0
NoZeroLeaf(os, o, fuel) ==
  IF os[o].type = "leaf" THEN os[o].len >= 1
  ELSE \/ fuel = 0
       \/ \A i \in 1 .. Len(os[o].generators) :
            NoZeroLeaf(os, os[o].generators[i], fuel - 1)

\* C1 (as stated): whenever generate() was called on a composite with k
\* children and length() = totalLen > k, it returned a string of exactly
\* totalLen characters.
C1_LengthIsMax ==
  (CompositeGenerated /\ TotalLen > NumChildren)
    => (last.outcome = "returned" /\ Len(last.str) = TotalLen)

\* C1 (amended): the same, for composites each of whose children generates
\* successfully on its own.
C1_LengthIsMaxWhenChildrenGenerate ==
  (/\ CompositeGenerated
   /\ TotalLen > NumChildren
   /\ \A i \in 1 .. NumChildren :
        Generable(objs, objs[last.obj].generators[i], StackDepth))
    => (last.outcome = "returned" /\ Len(last.str) = TotalLen)

\* C1 witness: a composite with two children of different lengths returned
\* a password.
C1_Witness ==
  /\ CompositeGenerated
  /\ last.outcome = "returned"
  /\ NumChildren = 2
  /\ length(objs, objs[last.obj].generators[1], StackDepth)
       # length(objs, objs[last.obj].generators[2], StackDepth)

\* C2: whenever composite generate() returned with k children, the last k
\* characters are, in registration order, characters of the fragments the
\* children generated in this call, hence of a leaf child's alphabet.
C2_TrailingBlock ==
  (CompositeGenerated /\ last.outcome = "returned")
    => LET k == NumChildren
           n == Len(last.str)
       IN /\ Len(last.frags) = k
          /\ n >= k
          /\ \A i \in 1 .. k :
               /\ last.str[n - k + i] \in Range(last.frags[i])
               /\ LET child == objs[objs[last.obj].generators[i]]
                  IN child.type = "leaf"
                       => last.str[n - k + i] \in Range(allowed_chars(child.kind))

\* C2 witness: a password returned by a composite whose two children are
\* leaves of different kinds.
C2_Witness ==
  /\ CompositeGenerated
  /\ last.outcome = "returned"
  /\ NumChildren = 2
  /\ LET a == objs[objs[last.obj].generators[1]]
         b == objs[objs[last.obj].generators[2]]
     IN a.type = "leaf" /\ b.type = "leaf" /\ a.kind # b.kind

\* C3 (as stated): whenever generate() was called on a composite whose
\* length() is at most its number of children, it raised out_of_range and
\* returned no string.
C3_TooShortFails ==
  (CompositeGenerated /\ TotalLen # Overflow /\ TotalLen <= NumChildren)
    => (last.outcome = "out_of_range" /\ last.str = <<>>)

\* C3 (amended): the same, for composites none of whose reachable leaves has
\* length 0.
C3_TooShortFailsWithoutZeroLeaf ==
  (/\ CompositeGenerated
   /\ TotalLen # Overflow
   /\ TotalLen <= NumChildren
   /\ NoZeroLeaf(objs, last.obj, StackDepth))
    => (last.outcome = "out_of_range" /\ last.str = <<>>)

\* C3 witness: generate() on a composite whose only child is a leaf of
\* length 1 raised out_of_range.
C3_Witness ==
  /\ CompositeGenerated
  /\ NumChildren = 1
  /\ objs[objs[last.obj].generators[1]].type = "leaf"
  /\ TotalLen = 1
  /\ last.outcome = "out_of_range"

\* C4 (as stated): set_length with a non-positive argument fails, and the
\* default length is always a positive value that the initial default or an
\* argument of set_length gave.
C4_NonPositiveRejected ==
  /\ (last.op = "set_length" /\ last.arg <= 0) => last.outcome = "out_of_range"
  /\ password_default_length \in {InitialDefaultLength} \cup {n \in SetLengthArgs : n > 0}

\* the exceptions that report an invalid argument (std::logic_error family)
InvalidInputErrors == {"invalid_argument", "out_of_range", "length_error", "domain_error"}

\* C5 (as stated): random_string called with len < 1 or an empty alphabet
\* raises an invalid-input error and returns no string.
C5_InvalidInputRejected ==
  (last.op = "random_string" /\ (last.arg < 1 \/ last.chars = <<>>))
    => (last.outcome \in InvalidInputErrors /\ last.str = <<>>)

\* C6 (as stated): generate() on a leaf built with any length returns
\* exactly length() characters, all of them from allowed_chars().
C6_LeafOutput ==
  LeafGenerated
    => /\ last.outcome = "returned"
       /\ Len(last.str) = objs[last.obj].len
       /\ Range(last.str) \subseteq Range(allowed_chars(objs[last.obj].kind))

\* C6 (amended): the same, for leaves whose length is at least 1 and at
\* most the longest string that can be allocated.
C6_LeafOutputValidLength ==
  (LeafGenerated /\ ValidLength(objs[last.obj].len))
    => /\ last.outcome = "returned"
       /\ Len(last.str) = objs[last.obj].len
       /\ Range(last.str) \subseteq Range(allowed_chars(objs[last.obj].kind))

\* C6 witness: a leaf of length 12 (the default of symbol and lower) returned
\* its string.
C6_Witness ==
  /\ LeafGenerated
  /\ last.outcome = "returned"
  /\ objs[last.obj].len = symbol_default

C8_GenerateEnds ==
  last.op = "generate"
    => last.outcome \in {"returned", "out_of_range", "runtime_error", "bad_alloc"}

\* C9: add on a composite appends the policy as the last child, one more
\* child than before, the earlier children unchanged and every other object
\* untouched; add on a leaf raises runtime_error and changes nothing.
C9_AddAppends ==
  [][last'.op = "add"
       => LET c == last'.obj
              p == last'.arg
          IN IF objs[c].type = "composite"
               THEN /\ last'.outcome = "returned"
                    /\ Len(objs'[c].generators) = Len(objs[c].generators) + 1
                    /\ objs'[c].generators[Len(objs'[c].generators)] = p
                    /\ SubSeq(objs'[c].generators, 1, Len(objs[c].generators))
                         = objs[c].generators
                    /\ \A o \in 1 .. MaxObj : o # c => objs'[o] = objs[o]
                    /\ password_default_length' = password_default_length
               ELSE /\ last'.outcome = "runtime_error"
                    /\ objs' = objs
                    /\ password_default_length' = password_default_length]_vars

\* C9 witness: a second, different child has just been added to a composite.
C9_Witness ==
  /\ last.op = "add"
  /\ last.outcome = "returned"
  /\ Len(objs[last.obj].generators) = 2
  /\ objs[last.obj].generators[1] # objs[last.obj].generators[2]

\* C10: every character of a password a composite returned occurs in one of
\* the fragments its children generated in this call; with leaf children
\* only, it belongs to one of their alphabets.
C10_CharsFromFragments ==
  (CompositeGenerated /\ last.outcome = "returned")
    => /\ Range(last.str) \subseteq Range(Concat(last.frags))
       /\ (\A i \in 1 .. NumChildren :
             objs[objs[last.obj].generators[i]].type = "leaf")
            => Range(last.str) \subseteq
                 UNION {Range(allowed_chars(objs[objs[last.obj].generators[i]].kind)) :
                          i \in 1 .. NumChildren}

\* C10 witness: a password with at least two filler characters returned by
\* a composite with a single symbol child.
C10_Witness ==
  /\ CompositeGenerated
  /\ last.outcome = "returned"
  /\ NumChildren = 1
  /\ objs[objs[last.obj].generators[1]].kind = "symbol"
  /\ Len(last.str) >= 3

====
